---------------------------- MODULE Spec2Model ----------------------------
(***************************************************************************)
(* Model of create_test_audio (src/create_test_audio.py): synthesis of a   *)
(* faded sine waveform, its write to a temporary WAV file, the external    *)
(* encoder invocation with its two exception handlers and the finally      *)
(* clause that unlinks the temporary file.                                 *)
(*                                                                         *)
(* The script fixes its parameters as literals (44100, 5.0, 440, 0.3,      *)
(* 0.1).  The model lifts the five literals to inputs drawn from small     *)
(* sets and evaluates the same expressions on them.  Times are multiples   *)
(* of 1/TimeDen, amplitudes multiples of 1/AmpDen; samples are exact       *)
(* rationals [num, den] in units of 1/(AmpDen*SinScale).  With TimeDen a   *)
(* power of two the products int() is applied to are exact in binary      *)
(* floating point as well, so the truncations agree with the script's.    *)
(***************************************************************************)
EXTENDS Integers, Sequences, FiniteSets

VARIABLES
    params,       \* the five synthesis parameters (lines 16-18, 22, 25)
    pc,           \* position in create_test_audio
    audio_data,   \* the sample array
    err,          \* the exception propagating out of the call, or "none"
    tempCreated,  \* NamedTemporaryFile has created the temporary file
    tempExists,   \* the temporary file is present in the filesystem
    tempOpen,     \* the handle temp_wav is open
    tempContent,  \* what the temporary file holds
    encOutcome,   \* how subprocess.run ended
    webm,         \* content of test_dir/test_audio_440hz_5sec.webm
    wav,          \* content of test_dir/test_audio_440hz_5sec.wav
    result        \* the value the call returned

vars == <<params, pc, audio_data, err, tempCreated, tempExists, tempOpen,
          tempContent, encOutcome, webm, wav, result>>

fileVars == <<tempCreated, tempExists, tempOpen, tempContent, encOutcome,
              webm, wav, result>>

---------------------------------------------------------------------------
(* Bounds of the input sets and resolution of the arithmetic.              *)

TimeDen == 4
AmpDen == 10
SinScale == 10
MaxRate == 4
MaxDurNum == 5
MaxFreq == 2
MaxFadeNum == 2
NegRange == 1

Rates == (0 - NegRange)..MaxRate
DurNums == (0 - NegRange)..MaxDurNum
Freqs == 0..MaxFreq
AmpNums == {0, 3, AmpDen, AmpDen + 2}
FadeNums == (0 - NegRange)..MaxFadeNum

ParamSets ==
    [sample_rate : Rates, durNum : DurNums, frequency : Freqs,
     ampNum : AmpNums, fadeNum : FadeNums]

---------------------------------------------------------------------------
(* Arithmetic helpers.                                                      *)

Min(a, b) == IF a < b THEN a ELSE b
Max(a, b) == IF a > b THEN a ELSE b
Abs(a) == IF a < 0 THEN 0 - a ELSE a

\* Python int() of the quotient a/b, b > 0: truncation toward zero.
Trunc(a, b) == IF a >= 0 THEN a \div b ELSE 0 - ((0 - a) \div b)

\* round(a/b) for b > 0, ties to even as Python's round.
RoundHalfEven(a, b) ==
    LET q == a \div b
        r == a % b
    IN IF 2 * r < b THEN q
       ELSE IF 2 * r > b THEN q + 1
       ELSE IF q % 2 = 0 THEN q ELSE q + 1

Rat(n, d) == [num |-> n, den |-> d]
RMul(x, y) == Rat(x.num * y.num, x.den * y.den)
REq(x, y) == x.num * y.den = y.num * x.den

\* np.linspace(a, b, m) for m >= 0, endpoints a = aNum/d and b = bNum/d.
LinspaceOpen(aNum, bNum, d, m) ==
    [k \in 1..m |-> Rat(aNum * m + (k - 1) * (bNum - aNum), d * m)]
Linspace(aNum, bNum, d, m) ==
    [k \in 1..m |->
        IF m = 1 THEN Rat(aNum, d)
        ELSE Rat(aNum * (m - 1) + (k - 1) * (bNum - aNum), d * (m - 1))]

\* np.sin of 2*pi*x for x = tn/td turns (td > 0), in units of 1/SinScale.
\* The sine of a half turn y in [0,1] is taken as 16y(1-y)/(5-4y(1-y)).
SinTurns(tn, td) ==
    LET r == (2 * tn) % (2 * td)
        neg == r >= td
        a == IF neg THEN r - td ELSE r
        prod == a * (td - a)
        v == (SinScale * 16 * prod) \div (5 * td * td - 4 * prod)
    IN IF neg THEN 0 - v ELSE v

---------------------------------------------------------------------------
(* Lines 16-27: synthesis.                                                  *)

\* int(sample_rate * duration), line 21
NumSamplesRounded(sr, durNum) == RoundHalfEven(sr * durNum, TimeDen)
NumSamples(sr, durNum) == Trunc(sr * durNum, TimeDen)

\* t = np.linspace(0, duration, n), line 21
TimePoints(p) == Linspace(0, p.durNum, TimeDen, NumSamples(p.sample_rate, p.durNum))

\* 0.3 * np.sin(2 * np.pi * frequency * t[k]), line 22
RawSampleNoAmp(p, tk) == Rat(AmpDen * SinTurns(p.frequency * tk.num, tk.den), 1)
RawSample(p, tk) == Rat(p.ampNum * SinTurns(p.frequency * tk.num, tk.den), 1)

Unfaded(p) ==
    LET t == TimePoints(p) IN [k \in 1..Len(t) |-> RawSample(p, t[k])]

\* int(0.1 * sample_rate), line 25
FadeLen(sr, fadeNum) == Trunc(sr * fadeNum, TimeDen)

\* np.linspace(0, 1, fade_samples) and np.linspace(1, 0, fade_samples)
RampUpOpen(f) == LinspaceOpen(0, 1, 1, f)
RampUp(f) == Linspace(0, 1, 1, f)
RampDown(f) == Linspace(1, 0, 1, f)

\* data[lo..hi] *= ramp, in place: the elements outside the slice are kept.
MulSliceOnly(data, lo, hi, ramp) ==
    [k \in 1..Len(data) |->
        IF lo <= k /\ k <= hi
        THEN RMul(data[k], ramp[IF Len(ramp) = 1 THEN 1 ELSE k - lo + 1])
        ELSE Rat(0, 1)]
MulSlice(data, lo, hi, ramp) ==
    [k \in 1..Len(data) |->
        IF lo <= k /\ k <= hi
        THEN RMul(data[k], ramp[IF Len(ramp) = 1 THEN 1 ELSE k - lo + 1])
        ELSE data[k]]

\* numpy broadcasting of an in-place multiply: a slice of m elements takes
\* a factor of f elements when the lengths agree or the factor has one.
Broadcastable(m, f) == m = f \/ f = 1

\* First index (1-based) of audio_data[-f:] for an array of n elements:
\* -0 is 0, so f = 0 selects the whole array.
TailStart(n, f) == IF f = 0 THEN 1 ELSE Max(n - f, 0) + 1

Init ==
    /\ params \in ParamSets
    /\ pc = "generate"
    /\ audio_data = << >>
    /\ err = "none"
    /\ tempCreated = FALSE
    /\ tempExists = FALSE
    /\ tempOpen = FALSE
    /\ tempContent = [kind |-> "absent"]
    /\ encOutcome = "none"
    /\ webm = [kind |-> "absent"]
    /\ wav = [kind |-> "absent"]
    /\ result = "unset"

Raise(e) ==
    /\ err' = e
    /\ pc' = "done"

\* Lines 21-22.  np.linspace rejects a negative number of samples.
Generate ==
    /\ pc = "generate"
    /\ IF NumSamples(params.sample_rate, params.durNum) < 0
       THEN /\ Raise("ValueError")
            /\ UNCHANGED audio_data
       ELSE /\ audio_data' = Unfaded(params)
            /\ pc' = "fade_in"
            /\ UNCHANGED err
    /\ UNCHANGED <<params, fileVars>>

\* Lines 25-26.
FadeIn ==
    /\ pc = "fade_in"
    /\ LET f == FadeLen(params.sample_rate, params.fadeNum)
           n == Len(audio_data)
           m == Min(f, n)
       IN IF f < 0 \/ ~Broadcastable(m, f)
          THEN /\ Raise("ValueError")
               /\ UNCHANGED audio_data
          ELSE /\ audio_data' = MulSlice(audio_data, 1, m, RampUp(f))
               /\ pc' = "fade_out"
               /\ UNCHANGED err
    /\ UNCHANGED <<params, fileVars>>

\* Line 27.
FadeOut ==
    /\ pc = "fade_out"
    /\ LET f == FadeLen(params.sample_rate, params.fadeNum)
           n == Len(audio_data)
           lo == TailStart(n, f)
           m == n - lo + 1
       IN IF ~Broadcastable(m, f)
          THEN /\ Raise("ValueError")
               /\ UNCHANGED audio_data
          ELSE /\ audio_data' = MulSlice(audio_data, lo, n, RampDown(f))
               /\ pc' = "mkdir"
               /\ UNCHANGED err
    /\ UNCHANGED <<params, fileVars>>

\* sf.write(temp_wav.name, audio_data, sample_rate): the WAV file soundfile
\* produces from the array, identified by its rate and its frame count.
WavOf(data, sr) == [kind |-> "pcm", rate |-> sr, frames |-> Len(data)]

\* What ffmpeg -c:a libopus produces from a readable PCM input.
WebmOf(pcm) == [kind |-> "opus", frames |-> pcm.frames]

\* Lines 30-31: test_dir.mkdir(exist_ok=True) raises when the parent
\* directory is missing.
Mkdir ==
    /\ pc = "mkdir"
    /\ \E ok \in BOOLEAN :
        IF ok THEN pc' = "create_temp" /\ UNCHANGED err
        ELSE Raise("OSError")
    /\ UNCHANGED <<params, audio_data, fileVars>>

\* Line 34: NamedTemporaryFile(suffix=".wav", delete=False).
CreateTemp ==
    /\ pc = "create_temp"
    /\ \E ok \in BOOLEAN :
        IF ok
        THEN /\ tempCreated' = TRUE
             /\ tempExists' = TRUE
             /\ tempOpen' = TRUE
             /\ tempContent' = [kind |-> "empty"]
             /\ pc' = "write_temp"
             /\ UNCHANGED err
        ELSE /\ Raise("OSError")
             /\ UNCHANGED <<tempCreated, tempExists, tempOpen, tempContent>>
    /\ UNCHANGED <<params, audio_data, encOutcome, webm, wav, result>>

\* Line 35: sf.write into the temporary file.  When it raises, the with
\* statement closes the handle and the exception leaves the function;
\* the file was created with delete=False.
WriteTemp ==
    /\ pc = "write_temp"
    /\ \E ok \in BOOLEAN :
        IF ok
        THEN /\ tempContent' = WavOf(audio_data, params.sample_rate)
             /\ pc' = "exit_with"
             /\ UNCHANGED <<err, tempOpen>>
        ELSE /\ tempContent' = [kind |-> "partial"]
             /\ tempOpen' = FALSE
             /\ Raise("LibsndfileError")
    /\ UNCHANGED <<params, audio_data, tempCreated, tempExists, encOutcome,
                   webm, wav, result>>

\* Line 36 and the end of the with block: the handle is closed, the file
\* stays (delete=False).
ExitWithDelete ==
    /\ pc = "exit_with"
    /\ tempOpen' = FALSE
    /\ tempExists' = FALSE
    /\ tempContent' = [kind |-> "absent"]
    /\ pc' = "run_encoder"
    /\ UNCHANGED <<params, audio_data, err, tempCreated, encOutcome, webm,
                   wav, result>>
ExitWith ==
    /\ pc = "exit_with"
    /\ tempOpen' = FALSE
    /\ pc' = "run_encoder"
    /\ UNCHANGED <<params, audio_data, err, tempCreated, tempExists,
                   tempContent, encOutcome, webm, wav, result>>

\* Lines 42-48: subprocess.run(["ffmpeg", ...], check=True).  The program is
\* missing (FileNotFoundError), exits non-zero (CalledProcessError) or
\* succeeds; it can succeed only on an input it can read.
RunEncoder ==
    /\ pc = "run_encoder"
    /\ \E o \in {"ok", "nonzero", "not_found"} :
        /\ o = "ok" => tempExists /\ tempContent.kind = "pcm"
        /\ encOutcome' = o
        /\ webm' = IF o = "ok" THEN WebmOf(tempContent) ELSE webm
        /\ pc' = CASE o = "ok" -> "return_webm"
                   [] o = "nonzero" -> "except_called_process_error"
                   [] o = "not_found" -> "except_file_not_found"
    /\ UNCHANGED <<params, audio_data, err, tempCreated, tempExists, tempOpen,
                   tempContent, wav, result>>

\* Lines 50-52.
ReturnWebm ==
    /\ pc = "return_webm"
    /\ result' = "webm"
    /\ pc' = "finally"
    /\ UNCHANGED <<params, audio_data, err, tempCreated, tempExists, tempOpen,
                   tempContent, encOutcome, webm, wav>>

\* Lines 54-56: except subprocess.CalledProcessError: return None.
HandleCalledProcessErrorReraise ==
    /\ pc = "except_called_process_error"
    /\ err' = "CalledProcessError"
    /\ pc' = "finally"
    /\ UNCHANGED <<params, audio_data, tempCreated, tempExists, tempOpen,
                   tempContent, encOutcome, webm, wav, result>>
HandleCalledProcessError ==
    /\ pc = "except_called_process_error"
    /\ result' = "None"
    /\ pc' = "finally"
    /\ UNCHANGED <<params, audio_data, err, tempCreated, tempExists, tempOpen,
                   tempContent, encOutcome, webm, wav>>

\* Lines 57-66: except FileNotFoundError: copy the temporary WAV into the
\* test directory and return the copy's path.  An error of the copy
\* propagates through the finally clause.
HandleFileNotFoundNoCopy ==
    /\ pc = "except_file_not_found"
    /\ result' = "wav"
    /\ pc' = "finally"
    /\ UNCHANGED <<params, audio_data, err, tempCreated, tempExists, tempOpen,
                   tempContent, encOutcome, webm, wav>>
HandleFileNotFound ==
    /\ pc = "except_file_not_found"
    /\ \E ok \in BOOLEAN :
        IF ok /\ tempExists
        THEN /\ wav' = tempContent
             /\ result' = "wav"
             /\ UNCHANGED err
        ELSE /\ err' = "OSError"
             /\ UNCHANGED <<wav, result>>
    /\ pc' = "finally"
    /\ UNCHANGED <<params, audio_data, tempCreated, tempExists, tempOpen,
                   tempContent, encOutcome, webm>>

\* Lines 68-70: Path(temp_wav_path).unlink(missing_ok=True), then the
\* return or the pending exception takes effect.
Finally ==
    /\ pc = "finally"
    /\ tempExists' = FALSE
    /\ tempContent' = [kind |-> "absent"]
    /\ pc' = "done"
    /\ UNCHANGED <<params, audio_data, err, tempCreated, tempOpen, encOutcome,
                   webm, wav, result>>

Next ==
    \/ Generate
    \/ FadeIn
    \/ FadeOut
    \/ Mkdir
    \/ CreateTemp
    \/ WriteTemp
    \/ ExitWith
    \/ RunEncoder
    \/ ReturnWebm
    \/ HandleCalledProcessError
    \/ HandleFileNotFound
    \/ Finally

Spec == Init /\ [][Next]_vars

---------------------------------------------------------------------------
(* Vocabulary of the properties.                                            *)

\* The constraints the specification puts on the synthesis inputs.
ValidParams(p) ==
    /\ p.sample_rate > 0
    /\ p.durNum > 0
    /\ p.frequency > 0
    /\ 0 < p.ampNum /\ p.ampNum <= AmpDen
    /\ 0 <= p.fadeNum /\ 2 * p.fadeNum <= p.durNum

\* Lines 21-27 ran to the end without raising.
Synthesized == pc \notin {"generate", "fade_in", "fade_out"} /\ err # "ValueError"

Returned == pc = "done" /\ err = "none"

Absent(file) == file.kind = "absent"

\* The parameters of the script, lines 16-17.
FixtureRate == 44100
FixtureDuration == 5

---------------------------------------------------------------------------
(* C1 *)

---------------------------------------------------------------------------
(* C2 *)

\* C2: on every exit of the call taken after the temporary WAV file was
\* created, the temporary file no longer exists.
C2_TempRemovedOnEveryExit ==
    (ValidParams(params) /\ pc = "done" /\ tempCreated) => ~tempExists

---------------------------------------------------------------------------
(* C3 *)

---------------------------------------------------------------------------
(* C4 *)

---------------------------------------------------------------------------
(* C5 *)

---------------------------------------------------------------------------
(* C6 *)

\* The first f and the last f samples of the array are the unfaded samples
\* times a linear ramp of f points from 0 to 1, respectively from 1 to 0.
FadedBy(f) ==
    LET n == Len(audio_data)
        u == Unfaded(params)
    IN /\ f <= n
       /\ \A k \in 1..f :
            /\ REq(audio_data[k], RMul(u[k], Rat(k - 1, f - 1)))
            /\ REq(audio_data[n - f + k], RMul(u[n - f + k], Rat(f - k, f - 1)))
       /\ audio_data[1].num = 0
       /\ REq(audio_data[f], u[f])
       /\ REq(audio_data[n - f + 1], u[n - f + 1])
       /\ audio_data[n].num = 0

---------------------------------------------------------------------------
(* C7 *)

\* C7: for valid parameters every fade multiplier lies in [0, 1] and every
\* sample of the array lies in [-amplitude_scale, amplitude_scale], before
\* and after the fades.
C7_AmplitudeBounded ==
    LET f == (params.sample_rate * params.fadeNum) \div TimeDen
    IN (ValidParams(params) /\ pc # "generate")
        => /\ \A k \in 1..f :
                /\ RampUp(f)[k].den > 0 /\ RampDown(f)[k].den > 0
                /\ 0 <= RampUp(f)[k].num /\ RampUp(f)[k].num <= RampUp(f)[k].den
                /\ 0 <= RampDown(f)[k].num
                /\ RampDown(f)[k].num <= RampDown(f)[k].den
           /\ \A k \in 1..Len(audio_data) :
                /\ audio_data[k].den > 0
                /\ Abs(audio_data[k].num)
                      <= params.ampNum * SinScale * audio_data[k].den

C7_Witness ==
    /\ ValidParams(params)
    /\ Synthesized
    /\ params.ampNum < AmpDen
    /\ \E k \in 1..Len(audio_data) :
          Abs(audio_data[k].num) = params.ampNum * SinScale * audio_data[k].den

---------------------------------------------------------------------------
(* C8 *)

\* C8: the fade changes only the first f and the last f samples: every
\* sample between the two windows keeps its unfaded value, and the number of
\* samples is the one before fading.
C8_InteriorUnchanged ==
    LET f == (params.sample_rate * params.fadeNum) \div TimeDen
        u == Unfaded(params)
    IN (ValidParams(params) /\ pc # "generate")
          => /\ Len(audio_data) = Len(u)
             /\ \A k \in 1..Len(u) :
                   (f < k /\ k <= Len(u) - f) => audio_data[k] = u[k]

C8_Witness ==
    LET f == (params.sample_rate * params.fadeNum) \div TimeDen
    IN /\ ValidParams(params)
       /\ Synthesized
       /\ f > 0
       /\ \E k \in 1..Len(audio_data) :
             f < k /\ k <= Len(audio_data) - f /\ audio_data[k].num # 0

---------------------------------------------------------------------------
(* C9 *)

---------------------------------------------------------------------------
(* C10 *)

\* C10: the file steps are ordered: the encoder starts only on a temporary
\* file that is written and closed, the fallback copy reads the temporary
\* file while it exists, the temporary file is removed only after the
\* encoder invocation has ended, and a returned path names a file made from
\* the complete temporary file.
C10_FileStepsOrdered ==
    LET pcm == [kind |-> "pcm", rate |-> params.sample_rate,
                frames |-> Len(audio_data)]
    IN /\ pc = "run_encoder" => (tempExists /\ ~tempOpen /\ tempContent = pcm)
       /\ pc = "except_file_not_found" => (tempExists /\ tempContent = pcm)
       /\ (tempCreated /\ ~tempExists) => (pc = "done" /\ encOutcome # "none")
       /\ result = "wav" => wav = pcm
       /\ result = "webm" => webm = [kind |-> "opus", frames |-> Len(audio_data)]

C10_Witness ==
    ValidParams(params) /\ pc = "done" /\ result = "wav" /\ wav.kind = "pcm" /\ ~tempExists

=============================================================================
